---- MODULE Spec2Model ----
(***************************************************************************)
(* A model of the isochrone table reader of padova                         *)
(* (padova/isocdata.py, padova/basereader.py).                             *)
(*                                                                         *)
(* Text is modelled as a sequence of atoms: an atom is one of the          *)
(* separator characters " ", "\t", "=", "#" or a word (a maximal run of    *)
(* other characters).  A token produced by str.split() is a non-empty      *)
(* sequence of atoms (adjacent atoms with no whitespace between them).     *)
(* A floating point value is a reduced fraction <<numerator, denominator>>.*)
(*                                                                         *)
(* Seven specifications share the variables:                                *)
(*   MetaSpec  - IsochroneSet._parse_meta applied to one header line       *)
(*   IterSpec  - the cursor walk of IsochroneSet (next)                    *)
(*   JoinSpec  - join_isochrone_sets / join_isochrones                     *)
(*   ParseSpec - BaseReader._prescan_table and IsochroneSet._read          *)
(*   BandSpec  - Isochrone.filter_names                                    *)
(*   SettingsSpec - Settings (padova/settings.py)                          *)
(*   SchemaSpec - the column names and types of IsochroneSet._read         *)
(* A variable a specification does not use keeps the value Unused.         *)
(*                                                                         *)
(* Exceptions carry the names Python gives them.  _read calls              *)
(* self._prescan_table(2) and unpacks (header_lines, blocks, n_lines);     *)
(* BaseReader._prescan_table takes no header depth and returns a list of   *)
(* line indices, so the prescan _read relies on is modelled from its       *)
(* description (PrescanTable) and the method of basereader.py separately   *)
(* (PrescanStartLines).                                                    *)
(***************************************************************************)
EXTENDS Integers, Sequences, FiniteSets, TLC

VARIABLES
    metaIn,      \* MetaSpec: the pieces the header line is rendered from
    header,      \* MetaSpec: the header line handed to _parse_meta
    meta,        \* MetaSpec: the OrderedDict returned (sequence of [k, v])
    metaErr,     \* MetaSpec: "none", "pending" or the exception raised
    isochrones,  \* IterSpec: IsochroneSet._isochrones
    current,     \* IterSpec: IsochroneSet._current
    walk,        \* IterSpec: items returned by next() since the last StopIteration
    lastWalk,    \* IterSpec: the items of the walk the last StopIteration ended
    signal,      \* IterSpec: what the last call of next() did
    nwalks,      \* IterSpec: how many walks have run to their StopIteration
    handles,     \* IterSpec: the iterators handed out, each with the positions
                 \* it has yielded in the current pass
    called,      \* IterSpec: the last call, the cursor before it and its result
    left_set,    \* JoinSpec: left_set._isochrones
    right_set,   \* JoinSpec: right_set._isochrones
    left0,       \* JoinSpec: left_set._isochrones as it was before the call
    right0,      \* JoinSpec: right_set._isochrones as it was before the call
    joinArgs,    \* JoinSpec: the right_bands and left_bands of the call
    joinErr,     \* JoinSpec: "pending", "none" or the exception raised
    njoined,     \* JoinSpec: how many positions the call replaced
    fileIn,      \* ParseSpec: the pieces the file is rendered from
    lines,       \* ParseSpec: the lines of the file self.fname
    start_lines, \* ParseSpec: what BaseReader._prescan_table returned
    read,        \* ParseSpec: what IsochroneSet._read did (its locals, the
                 \*            exception raised, the _isochrones it built)
    read2,       \* ParseSpec: what a second _read of the same file did
    pc,          \* ParseSpec: "new", "prescanned", "read" or "reread"
    table_cols,  \* BandSpec: Isochrone.colnames, the columns of the table
    filter_names, \* BandSpec: what Isochrone.filter_names returned
    schema,      \* SettingsSpec: Settings._schema
    user_settings, \* SettingsSpec: Settings._user_settings
    lastOp,      \* SettingsSpec: the last call, its name argument and outcome
    nops,        \* SettingsSpec: how many calls were made
    colIn,       \* SchemaSpec: the pieces the column header line is made of
    hblocks,     \* SchemaSpec: the blocks of the prescan (their header_lines)
    dt           \* SchemaSpec: the colnames and dt of _read

vars == <<metaIn, header, meta, metaErr,
          isochrones, current, walk, lastWalk, signal, nwalks, handles, called,
          left_set, right_set, left0, right0, joinArgs, joinErr, njoined,
          fileIn, lines, start_lines, read, read2, pc,
          table_cols, filter_names,
          schema, user_settings, lastOp, nops,
          colIn, hblocks, dt>>

MetaVars == <<metaIn, header, meta, metaErr>>
IterVars == <<isochrones, current, walk, lastWalk, signal, nwalks, handles,
              called>>
JoinVars == <<left_set, right_set, left0, right0, joinArgs, joinErr, njoined>>
ParseVars == <<fileIn, lines, start_lines, read, read2, pc>>
BandVars == <<table_cols, filter_names>>
SettingsVars == <<schema, user_settings, lastOp, nops>>
SchemaVars == <<colIn, hblocks, dt>>

Unused == "unused"

(***************************************************************************)
(* Text helpers                                                            *)
(***************************************************************************)

\* str.replace(a, b) on single-character atoms
Replace(s, a, b) == [i \in DOMAIN s |-> IF s[i] = a THEN b ELSE s[i]]

IsSpace(a) == a \in {" ", "\t", "\n"}

\* str.split() without argument: maximal runs of non-whitespace atoms
RECURSIVE SplitFrom(_, _, _, _)
SplitFrom(s, i, cur, acc) ==
    IF i > Len(s)
    THEN IF cur = <<>> THEN acc ELSE Append(acc, cur)
    ELSE IF IsSpace(s[i])
         THEN SplitFrom(s, i + 1, <<>>, IF cur = <<>> THEN acc ELSE Append(acc, cur))
         ELSE SplitFrom(s, i + 1, Append(cur, s[i]), acc)

Split(s) == SplitFrom(s, 1, <<>>, <<>>)

\* the numeric literals of the model and float() of each, a reduced fraction
NumLits == {"0.012", "0.0120", "0.019", "3981000.0", "4467000.0"}

FloatLit(w) ==
    CASE w = "0.012"     -> <<3, 250>>
      [] w = "0.0120"    -> <<3, 250>>
      [] w = "0.019"     -> <<19, 1000>>
      [] w = "3981000.0" -> <<3981000, 1>>
      [] w = "4467000.0" -> <<4467000, 1>>

\* float(p): defined on a token that is one numeric literal, ValueError otherwise
CanFloat(tok) == Len(tok) = 1 /\ tok[1] \in NumLits
Float(tok) == FloatLit(tok[1])

\* the string of a token: a one-atom token is that atom's string
Str(tok) == IF Len(tok) = 1 THEN tok[1] ELSE tok

\* seq[a::2] for a in {0, 1} (0-based start, step 2)
RECURSIVE EveryOther(_, _)
EveryOther(s, a) ==
    IF a + 1 > Len(s) THEN <<>> ELSE <<s[a + 1]>> \o EveryOther(s, a + 2)

\* s[1:-1]
DropEnds(s) == IF Len(s) <= 2 THEN <<>> ELSE SubSeq(s, 2, Len(s) - 1)

Min(a, b) == IF a <= b THEN a ELSE b

\* OrderedDict(pairs): a repeated key keeps its first position, last value
RECURSIVE DictPut(_, _, _)
DictPut(d, k, v) ==
    IF d = <<>> THEN <<[k |-> k, v |-> v]>>
    ELSE IF d[1].k = k THEN <<[k |-> k, v |-> v]>> \o Tail(d)
         ELSE <<d[1]>> \o DictPut(Tail(d), k, v)

RECURSIVE OrderedDictOf(_, _, _)
OrderedDictOf(ks, vs, d) ==
    IF ks = <<>> \/ vs = <<>> THEN d
    ELSE OrderedDictOf(Tail(ks), Tail(vs), DictPut(d, ks[1], vs[1]))

DictKeys(d) == {d[i].k : i \in DOMAIN d}
DictGet(d, k) == LET i == CHOOSE j \in DOMAIN d : d[j].k = k IN d[i].v

(***************************************************************************)
(* IsochroneSet._parse_meta                                                *)
(***************************************************************************)

\* variant: the tokens without the [1:-1]
MetaPartsNoTrim(h) == Split(Replace(Replace(h, "\t", " "), "=", " "))

\* parts = header.replace('\t', ' ').replace('=', ' ').split()[1:-1]
MetaParts(h) == DropEnds(Split(Replace(Replace(h, "\t", " "), "=", " ")))

\* [float(p) for p in parts[1::2]] raises ValueError on a non-numeric token
ParseMetaFails(h) ==
    LET vals == EveryOther(MetaParts(h), 1)
    IN  \E i \in DOMAIN vals : ~CanFloat(vals[i])

ParseMeta(h) ==
    LET parts == MetaParts(h)
        toks  == EveryOther(parts, 1)
        vals  == [i \in DOMAIN toks |-> Float(toks[i])]
        keys  == EveryOther(parts, 0)
    IN  OrderedDictOf([i \in DOMAIN keys |-> Str(keys[i])], vals, <<>>)

(***************************************************************************)
(* MetaSpec: one header line, rendered from its pieces, parsed once        *)
(***************************************************************************)

MaxPairs == 2

MetaKeys == {"Z", "age", "Age"}
MetaVals == {"0.012", "0.0120", "3981000.0", "x"}

Prefixes == { <<>>, <<" ">>, <<"#", " ">>, <<"#", "\t">>,
              <<"#", "\t", "Isochrone", " ">> }
Suffixes == { <<>>, <<" ">>, <<" ", "yr">>, <<"\t", "yr", " ">> }
EqStyles == { <<" ", "=", " ">>, <<"=">> }
JoinStyles == { <<" ", " ">>, <<"\t">> }

PairSeqs == UNION { [1..n -> MetaKeys \X MetaVals] : n \in 0..MaxPairs }

\* the text of a header line made of the given pieces
RECURSIVE RenderPairs(_, _, _)
RenderPairs(ps, eq, jn) ==
    IF ps = <<>> THEN <<>>
    ELSE <<ps[1][1]>> \o eq \o <<ps[1][2]>>
         \o (IF Len(ps) > 1 THEN jn ELSE <<>>) \o RenderPairs(Tail(ps), eq, jn)

Render(m) == m.prefix \o RenderPairs(m.pairs, m.eq, m.join) \o m.suffix

MetaInit ==
    /\ metaIn \in [prefix : Prefixes, pairs : PairSeqs, suffix : Suffixes,
                   eq : EqStyles, join : JoinStyles]
    /\ header = Render(metaIn)
    /\ meta = <<>>
    /\ metaErr = "pending"
    \* the variables of the other specifications
    /\ isochrones = Unused /\ current = Unused /\ walk = Unused
    /\ lastWalk = Unused /\ signal = Unused /\ nwalks = Unused
    /\ handles = Unused /\ called = Unused
    /\ left_set = Unused /\ right_set = Unused /\ left0 = Unused
    /\ right0 = Unused
    /\ joinArgs = Unused /\ joinErr = Unused /\ njoined = Unused
    /\ fileIn = Unused /\ lines = Unused /\ start_lines = Unused
    /\ read = Unused /\ read2 = Unused /\ pc = Unused
    /\ table_cols = Unused /\ filter_names = Unused
    /\ schema = Unused /\ user_settings = Unused /\ lastOp = Unused
    /\ nops = Unused
    /\ colIn = Unused /\ hblocks = Unused /\ dt = Unused

CallParseMeta ==
    /\ metaErr = "pending"
    /\ IF ParseMetaFails(header)
       THEN /\ metaErr' = "ValueError"
            /\ meta' = meta
       ELSE /\ metaErr' = "none"
            /\ meta' = ParseMeta(header)
    /\ UNCHANGED <<metaIn, header>>
    /\ UNCHANGED <<IterVars, JoinVars, ParseVars, BandVars, SettingsVars, SchemaVars>>

(***************************************************************************)
(* IterSpec: IsochroneSet.__init__ / next                                  *)
(***************************************************************************)

MaxIsoc == 3
IsocIds == 1..3

MaxWalks == 2

\* how many iterators __iter__ hands out
MaxIters == 1

\* an iterator just handed out with the cursor at cur: no position yielded yet
NewHandle(cur) == [start |-> cur, yielded |-> <<>>]

\* the result of a call: the exception raised and the value returned
Raised(e) == [err |-> e, val |-> 0]
Returned(v) == [err |-> "none", val |-> v]

\* the set is its own iterator (next is a method of the set): handle 1
IterInit ==
    /\ isochrones \in UNION { [1..n -> IsocIds] : n \in 0..MaxIsoc }
    /\ current = 0
    /\ walk = <<>>
    /\ lastWalk = <<>>
    /\ signal = "none"
    /\ nwalks = 0
    /\ handles = <<NewHandle(0)>>
    /\ called = [op |-> "init", before |-> 0, ret |-> Returned(0)]
    \* the variables of the other specifications
    /\ metaIn = Unused /\ header = Unused /\ meta = Unused
    /\ metaErr = Unused
    /\ left_set = Unused /\ right_set = Unused /\ left0 = Unused
    /\ right0 = Unused
    /\ joinArgs = Unused /\ joinErr = Unused /\ njoined = Unused
    /\ fileIn = Unused /\ lines = Unused /\ start_lines = Unused
    /\ read = Unused /\ read2 = Unused /\ pc = Unused
    /\ table_cols = Unused /\ filter_names = Unused
    /\ schema = Unused /\ user_settings = Unused /\ lastOp = Unused
    /\ nops = Unused
    /\ colIn = Unused /\ hblocks = Unused /\ dt = Unused

\* self._isochrones[self._current] raises IndexError past the end
NextRaises(isocs, cur) == cur >= Len(isocs)

\* the cursor after a successful next()
NextCursor(cur) == cur + 1

\* variant: the cursor left where it is
KeepCursor(cur) == cur

\* the cursor after the IndexError branch: self._current = 0
ResetCursor(cur) == 0

\* next() on the iterator h; every iterator is the set itself, so the cursor
\* read and moved is the set's.  At the end every iterator starts over.
CallNext ==
    /\ nwalks < MaxWalks
    /\ \E h \in DOMAIN handles :
          IF NextRaises(isochrones, current)
          THEN /\ current' = ResetCursor(current)
               /\ signal' = "StopIteration"
               /\ lastWalk' = walk
               /\ walk' = <<>>
               /\ nwalks' = nwalks + 1
               /\ handles' = [i \in DOMAIN handles |-> NewHandle(0)]
               /\ called' = [op |-> "next", before |-> current,
                             ret |-> Raised("StopIteration")]
               /\ UNCHANGED isochrones
          ELSE /\ current' = NextCursor(current)
               /\ signal' = "item"
               /\ walk' = Append(walk, isochrones[current + 1])
               /\ handles' = [handles EXCEPT
                                 ![h].yielded = Append(@, current)]
               /\ called' = [op |-> "next", before |-> current,
                             ret |-> Returned(isochrones[current + 1])]
               /\ UNCHANGED <<isochrones, lastWalk, nwalks>>
    /\ UNCHANGED <<MetaVars, JoinVars, ParseVars, BandVars, SettingsVars, SchemaVars>>

\* variant: requesting an iteration rewinds the cursor
IterRewinds(cur) == 0

\* __iter__ returns self and assigns nothing: the cursor stays
IterCursor(cur) == cur

CallIter ==
    /\ nwalks < MaxWalks
    /\ Len(handles) < 1 + MaxIters
    /\ current' = IterCursor(current)
    /\ handles' = Append(handles, NewHandle(Len(walk)))
    /\ called' = [op |-> "iter", before |-> current, ret |-> Returned(0)]
    /\ UNCHANGED <<isochrones, walk, lastWalk, signal, nwalks>>
    /\ UNCHANGED <<MetaVars, JoinVars, ParseVars, BandVars, SettingsVars, SchemaVars>>

\* self._isochrones[index] of a list: a negative index counts from the end,
\* an index outside -len..len-1 raises IndexError
GetItemAt(isocs, index) ==
    IF index \in 0..(Len(isocs) - 1) THEN Returned(isocs[index + 1])
    ELSE IF index \in (0 - Len(isocs))..(0 - 1)
    THEN Returned(isocs[Len(isocs) + index + 1])
    ELSE Raised("IndexError")

CallGetItem ==
    /\ nwalks < MaxWalks
    /\ \E index \in (0 - MaxIsoc - 1)..MaxIsoc :
          called' = [op |-> "getitem", before |-> current,
                     ret |-> GetItemAt(isochrones, index)]
    /\ UNCHANGED <<isochrones, current, walk, lastWalk, signal, nwalks, handles>>
    /\ UNCHANGED <<MetaVars, JoinVars, ParseVars, BandVars, SettingsVars, SchemaVars>>

CallLen ==
    /\ nwalks < MaxWalks
    /\ called' = [op |-> "len", before |-> current,
                  ret |-> Returned(Len(isochrones))]
    /\ UNCHANGED <<isochrones, current, walk, lastWalk, signal, nwalks, handles>>
    /\ UNCHANGED <<MetaVars, JoinVars, ParseVars, BandVars, SettingsVars, SchemaVars>>

(***************************************************************************)
(* Isochrone tables                                                        *)
(*                                                                         *)
(* A table is [cols, rows]: cols the column names in order, rows a         *)
(* sequence of functions from column name to cell.  The cell of the key    *)
(* column M_ini is an integer; every other cell is a record naming the     *)
(* table, row and column it was read from, or Null (a masked cell).        *)
(***************************************************************************)

Null == [t |-> "null", r |-> 0, c |-> "null"]

SeqToSet(s) == {s[i] : i \in DOMAIN s}

\* Isochrone.non_mag_names: the names that are not bandpasses
PossibleNonMag ==
    {"log(age/yr)", "M_ini", "M_act", "logL/Lo", "logTe", "logG", "mbol",
     "C/O", "M_hec", "period", "pmode", "logMdot", "int_IMF", "stage",
     "Z", "logageyr", "logLLo"}

\* variant: the list of possible names without 'stage'
NonMagNamesNoStage(cols) ==
    SelectSeq(cols, LAMBDA n : n \in PossibleNonMag \ {"stage"})

\* Isochrone.non_mag_names: the columns of the table that are possible
\* non-bandpass names
NonMagNames(cols) == SelectSeq(cols, LAMBDA n : n \in PossibleNonMag)

\* Isochrone.filter_names: the columns that are not among non_mag_names
FilterNames(cols) ==
    LET non_mag == SeqToSet(NonMagNames(cols))
    IN  SelectSeq(cols, LAMBDA n : n \notin non_mag)

\* Table.remove_columns(names)
RemoveColumns(t, names) ==
    LET Stays(n) == n \notin names
        kept == SelectSeq(t.cols, Stays)
    IN  [cols |-> kept,
         rows |-> [i \in DOMAIN t.rows |-> [c \in SeqToSet(kept) |-> t.rows[i][c]]]]

\* Table.keep_columns(names) raises KeyError for a name the table lacks
KeepColumnsFails(t, names) == \E n \in SeqToSet(names) : n \notin SeqToSet(t.cols)
KeepColumns(t, names) == RemoveColumns(t, SeqToSet(t.cols) \ SeqToSet(names))

\* astropy.table.join renames a non-key column both sides have
Suffixed(c, side) ==
    CASE c = "logTe" -> IF side = 1 THEN "logTe_1" ELSE "logTe_2"
      [] c = "Z"     -> IF side = 1 THEN "Z_1" ELSE "Z_2"
      [] c = "J"     -> IF side = 1 THEN "J_1" ELSE "J_2"
      [] c = "U"     -> IF side = 1 THEN "U_1" ELSE "U_2"
      [] OTHER       -> c

MaxKey == 4

\* the rows of join_type='left': every left row, once per right row with the
\* same key, or once with the right cells masked; join_type='inner' drops
\* the left rows without a match

RowsOfLeftRow(tl, tr, key, jtype, lr, outL, outR) ==
    LET matches == SelectSeq([j \in DOMAIN tr.rows |-> j],
                             LAMBDA j : tr.rows[j][key] = lr[key])
        OutCell(c, j) ==
            IF c \in DOMAIN outL THEN lr[outL[c]]
            ELSE IF j = 0 THEN Null ELSE tr.rows[j][outR[c]]
        Row(j) == [c \in (DOMAIN outL) \cup (DOMAIN outR) |-> OutCell(c, j)]
    IN  IF matches = <<>>
        THEN IF jtype = "left" THEN <<Row(0)>> ELSE <<>>
        ELSE [m \in DOMAIN matches |-> Row(matches[m])]

RECURSIVE JoinRowsFrom(_, _, _, _, _, _, _, _)
JoinRowsFrom(tl, tr, key, jtype, k, i, outL, outR) ==
    IF k > MaxKey THEN <<>>
    ELSE IF i > Len(tl.rows) THEN JoinRowsFrom(tl, tr, key, jtype, k + 1, 1, outL, outR)
    ELSE (IF tl.rows[i][key] = k
          THEN RowsOfLeftRow(tl, tr, key, jtype, tl.rows[i], outL, outR)
          ELSE <<>>)
         \o JoinRowsFrom(tl, tr, key, jtype, k, i + 1, outL, outR)

\* astropy.table.join(tl, tr, join_type=jtype, keys=key); both tables have
\* the key column.  The rows come out sorted by key.
TableJoin(tl, tr, jtype, key) ==
    LET lset == SeqToSet(tl.cols)
        rset == SeqToSet(tr.cols)
        LName(c) == IF c # key /\ c \in rset THEN Suffixed(c, 1) ELSE c
        RName(c) == IF c \in lset THEN Suffixed(c, 2) ELSE c
        rcols == SelectSeq(tr.cols, LAMBDA c : c # key)
        cols == [i \in DOMAIN tl.cols |-> LName(tl.cols[i])]
                \o [i \in DOMAIN rcols |-> RName(rcols[i])]
        outL == [n \in {LName(c) : c \in lset} |->
                    CHOOSE c \in lset : LName(c) = n]
        outR == [n \in {RName(c) : c \in SeqToSet(rcols)} |->
                    CHOOSE c \in SeqToSet(rcols) : RName(c) = n]
    IN  [cols |-> cols,
         rows |-> JoinRowsFrom(tl, tr, key, jtype, 1, 1, outL, outR)]

(***************************************************************************)
(* join_isochrones / join_isochrone_sets                                   *)
(*                                                                         *)
(* A bands argument is [none |-> TRUE, names |-> <<>>] for None and        *)
(* [none |-> FALSE, names |-> list] for a list.                            *)
(***************************************************************************)

NoBands == [none |-> TRUE, names |-> <<>>]
Bands(names) == [none |-> FALSE, names |-> names]

\* lines 267-268: if right_bands is None: left_bands = t_left.filter_names
DefaultLeftBands(t_left, right_bands, left_bands) ==
    IF right_bands.none THEN Bands(FilterNames(t_left.cols)) ELSE left_bands

\* lines 270-273: drop the left filters that left_bands does not name
TrimLeft(t_left, left_bands) ==
    IF left_bands.none THEN t_left
    ELSE RemoveColumns(t_left, SeqToSet(FilterNames(t_left.cols))
                               \ SeqToSet(left_bands.names))

\* variant: no left filter removed
KeepsCollidingBands(left_filters, right_bands) == {}

\* lines 276-278: the left filters that appear among right_bands
CollidingBands(left_filters, right_bands) ==
    {b \in SeqToSet(left_filters) : b \in SeqToSet(right_bands.names)}

\* variant: join_type='inner'
JoinKindInner == "inner"

\* line 283: the join type of the call of astropy's join
JoinKind == "left"

\* variant: t_right is the caller's table itself
RightAliased(right_isoc, t_right) == t_right

\* line 266: t_right = Isochrone(right_isoc) is a copy, so the caller's
\* right_isoc is as before whatever is done to t_right
RightAfter(right_isoc, t_right) == right_isoc

\* the result: the exception raised, the table returned (tbl) and the
\* caller's right_isoc after the call (right)
JoinIsochrones(left_isoc, right_isoc, right_bands, left_bands) ==
    LET lb      == DefaultLeftBands(left_isoc, right_bands, left_bands)
        t_left1 == TrimLeft(left_isoc, lb)
        filters == FilterNames(t_left1.cols)
        t_left2 == RemoveColumns(t_left1, CollidingBands(filters, right_bands))
        keep    == <<"M_ini">> \o right_bands.names
        t_right == KeepColumns(right_isoc, keep)
    IN  IF right_bands.none /\ filters # <<>>
        THEN [err |-> "TypeError", tbl |-> left_isoc,     \* b in None, line 277
              right |-> right_isoc]
        ELSE IF right_bands.none
        THEN [err |-> "TypeError", tbl |-> left_isoc,     \* list + None, line 281
              right |-> right_isoc]
        ELSE IF KeepColumnsFails(right_isoc, keep)
        THEN [err |-> "KeyError", tbl |-> left_isoc,      \* keep_columns, line 281
              right |-> right_isoc]
        ELSE IF "M_ini" \notin SeqToSet(t_left2.cols)
        THEN [err |-> "TableMergeError", tbl |-> left_isoc,  \* join, line 283
              right |-> RightAfter(right_isoc, t_right)]
        ELSE [err |-> "none",
              tbl |-> TableJoin(t_left2, t_right, JoinKind, "M_ini"),
              right |-> RightAfter(right_isoc, t_right)]

\* the positions zip(left_set.isochrones, right_set.isochrones) pairs
PairedPositions(ls, rs) == Min(Len(ls), Len(rs))

\* the loop of join_isochrone_sets from position i on (1-based); an
\* exception of join_isochrones leaves the positions before i replaced
RECURSIVE JoinSetsFrom(_, _, _, _, _)
JoinSetsFrom(ls, rs, i, right_bands, left_bands) ==
    IF i > PairedPositions(ls, rs)
    THEN [err |-> "none", set |-> ls, rset |-> rs, n |-> i - 1]
    ELSE LET r == JoinIsochrones(ls[i], rs[i], right_bands, left_bands)
         IN  IF r.err # "none"
             THEN [err |-> r.err, set |-> ls,
                   rset |-> [rs EXCEPT ![i] = r.right], n |-> i - 1]
             ELSE JoinSetsFrom([ls EXCEPT ![i] = r.tbl],
                               [rs EXCEPT ![i] = r.right], i + 1,
                               right_bands, left_bands)

(***************************************************************************)
(* JoinSpec: two isochrone sets, joined once                               *)
(***************************************************************************)

MaxSet == 2

Cell(t, r, c) == [t |-> t, r |-> r, c |-> c]

\* a table with the given columns and M_ini values, every other cell naming
\* where it is
MakeTable(name, cols, keys) ==
    [cols |-> cols,
     rows |-> [r \in DOMAIN keys |->
                 [c \in SeqToSet(cols) |->
                     IF c = "M_ini" THEN keys[r] ELSE Cell(name, r, c)]]]

LeftTables ==
    { MakeTable("L", <<"M_ini", "logTe", "J", "H", "Ks">>, <<1, 2>>),
      MakeTable("L", <<"M_ini", "logTe", "J", "H", "Ks">>, <<3, 1, 2>>),
      MakeTable("L", <<"logTe", "M_ini", "J", "U", "stage">>, <<2, 1>>),
      MakeTable("L", <<"M_ini", "logTe">>, <<1, 3>>),
      MakeTable("L", <<"logTe", "J", "H">>, <<1, 2>>) }

RightTables ==
    { MakeTable("R", <<"M_ini", "logTe", "U", "B", "V">>, <<1, 2>>),
      MakeTable("R", <<"M_ini", "logTe", "U", "B", "V">>, <<2, 4>>),
      MakeTable("R", <<"Z", "M_ini", "U", "J">>, <<2, 2, 1>>),
      MakeTable("R", <<"M_ini", "U", "B", "V">>, <<4>>),
      MakeTable("R", <<"logTe", "U", "B", "V">>, <<1, 2>>) }

RightBandsArgs ==
    { NoBands, Bands(<<"U", "B", "V">>), Bands(<<"U">>), Bands(<<"U", "J">>),
      Bands(<<"U", "logTe">>), Bands(<<>>) }
LeftBandsArgs == { NoBands, Bands(<<"J">>), Bands(<<"J", "H", "Ks">>) }

SetsOf(tables) == UNION { [1..n -> tables] : n \in 0..MaxSet }

JoinInit ==
    /\ left_set \in SetsOf(LeftTables)
    /\ right_set \in SetsOf(RightTables)
    /\ left0 = left_set
    /\ right0 = right_set
    /\ joinArgs = [right_bands |-> NoBands, left_bands |-> NoBands]
    /\ joinErr = "pending"
    /\ njoined = 0
    \* the variables of the other specifications
    /\ metaIn = Unused /\ header = Unused /\ meta = Unused
    /\ metaErr = Unused
    /\ isochrones = Unused /\ current = Unused /\ walk = Unused
    /\ lastWalk = Unused /\ signal = Unused /\ nwalks = Unused
    /\ handles = Unused /\ called = Unused
    /\ fileIn = Unused /\ lines = Unused /\ start_lines = Unused
    /\ read = Unused /\ read2 = Unused /\ pc = Unused
    /\ table_cols = Unused /\ filter_names = Unused
    /\ schema = Unused /\ user_settings = Unused /\ lastOp = Unused
    /\ nops = Unused
    /\ colIn = Unused /\ hblocks = Unused /\ dt = Unused

JoinIsochroneSets(right_bands, left_bands) ==
    /\ joinErr = "pending"
    /\ LET r == JoinSetsFrom(left_set, right_set, 1, right_bands, left_bands)
       IN  /\ left_set' = r.set
           /\ right_set' = r.rset
           /\ joinErr' = r.err
           /\ njoined' = r.n
    /\ joinArgs' = [right_bands |-> right_bands, left_bands |-> left_bands]
    /\ UNCHANGED <<left0, right0>>
    /\ UNCHANGED <<MetaVars, IterVars, ParseVars, BandVars, SettingsVars, SchemaVars>>

(***************************************************************************)
(* Files                                                                   *)
(*                                                                         *)
(* A line is [text, fields].  A comment line has its text as atoms and no  *)
(* fields.  A data line starts with a tab (text = <<"\t">>, the blank      *)
(* first column) and carries its other tab-separated fields as numbers:    *)
(* log(age/yr) in units of 0.00005 and Z in units of 0.0000005, so that    *)
(* the tolerances 0.0001 and 0.000001 of _read are both 2 units.           *)
(***************************************************************************)

StartsWith(text, prefix) ==
    /\ Len(text) >= Len(prefix)
    /\ \A i \in DOMAIN prefix : text[i] = prefix[i]

\* BaseReader._prescan_table (basereader.py): the 0-based indices of the
\* lines that start with "#\t"
RECURSIVE StartLinesFrom(_, _, _)
StartLinesFrom(ls, i, prefix) ==
    IF i > Len(ls) THEN <<>>
    ELSE (IF StartsWith(ls[i].text, prefix) THEN <<i - 1>> ELSE <<>>)
         \o StartLinesFrom(ls, i + 1, prefix)

PrescanStartLines(ls) == StartLinesFrom(ls, 1, <<"#", "\t">>)

\* The prescan IsochroneSet._read calls, self._prescan_table(2), returns
\* (header_lines, blocks, n_lines); basereader.py defines no method of that
\* signature.  It walks the lines once with a buffer of pending comment
\* lines: a data line with no block open opens one, taking the last d
\* buffered lines as the block's header_lines and the others as global
\* header lines; the next comment line closes the block at the line before;
\* the end of the last block is the last line index of the file.
IsCommentLine(l) == l.text # <<>> /\ l.text[1] = "#"

RECURSIVE PrescanFrom(_, _, _, _, _, _, _)
PrescanFrom(ls, d, i, bufr, hdr, blocks, open) ==
    IF i > Len(ls)
    THEN IF blocks = <<>>
         THEN [err |-> "MalformedTableError", header_lines |-> hdr,
               blocks |-> blocks, n_lines |-> Len(ls)]
         ELSE [err |-> "none", header_lines |-> hdr,
               blocks |-> [blocks EXCEPT ![Len(blocks)].end = Len(ls) - 1],
               n_lines |-> Len(ls)]
    ELSE IF IsCommentLine(ls[i])
    THEN PrescanFrom(ls, d, i + 1, Append(bufr, ls[i].text), hdr,
                     IF open THEN [blocks EXCEPT ![Len(blocks)].end = i - 2]
                             ELSE blocks,
                     FALSE)
    ELSE IF open
    THEN PrescanFrom(ls, d, i + 1, bufr, hdr, blocks, TRUE)
    ELSE IF Len(bufr) < d
    THEN [err |-> "MalformedTableError", header_lines |-> hdr,
          blocks |-> blocks, n_lines |-> Len(ls)]
    ELSE PrescanFrom(ls, d, i + 1, <<>>,
                     hdr \o SubSeq(bufr, 1, Len(bufr) - d),
                     Append(blocks,
                            [start |-> i - 1, end |-> -1,
                             header_lines |-> SubSeq(bufr, Len(bufr) - d + 1, Len(bufr))]),
                     TRUE)

PrescanTable(ls, d) == PrescanFrom(ls, d, 1, <<>>, <<>>, <<>>, FALSE)

(***************************************************************************)
(* IsochroneSet._read                                                      *)
(***************************************************************************)

\* variant: a header depth one line short
HeaderDepthOne == 2 - 1

\* the header depth _read passes to the prescan (line 55)
HeaderDepth == 2

\* _parse_colnames: header.replace('\t', ' ').split(); a name is a token
ParseColnames(h) == Split(Replace(h, "\t", " "))

\* variant: the first header line of the first block
SchemaLineFirst(blocks) == blocks[1].header_lines[1]

\* line 58: blocks[0]['header_lines'][-1]
SchemaLine(blocks) == blocks[1].header_lines[Len(blocks[1].header_lines)]

\* lines 61-68: the dtype of a column
ColType(cname) ==
    IF cname = <<"stage">> THEN "int"
    ELSE IF cname = <<"pmode">> THEN "int" ELSE "float"

\* lines 61-68: dt, a (name, type) pair per column name, in order
DType(colnames) ==
    [i \in DOMAIN colnames |-> [name |-> colnames[i], type |-> ColType(colnames[i])]]

\* numpy.genfromtxt deletes the characters a field name may not hold (among
\* them "#", "=", "(", "/", ")") and names a field left without a name f0;
\* the names of the model have at most one word
ValidWord(w) ==
    CASE w = "log(age/yr)" -> "logageyr"
      [] w = "logL/Lo"     -> "logLLo"
      [] w = "C/O"         -> "CO"
      [] OTHER             -> w

ValidName(cname) ==
    LET ws == SelectSeq(cname, LAMBDA a : a \notin {"#", "="})
    IN  IF ws = <<>> THEN "f0" ELSE ValidWord(ws[1])

\* numpy.genfromtxt(..., comments='#', delimiter='\t', usecols=1..N): the
\* data lines, in order; a line that lacks one of the columns usecols names
\* is an error (ValueError once all lines are read)
DataLines(ls) == SelectSeq(ls, LAMBDA l : ~IsCommentLine(l))

LoadFails(ls, names) ==
    LET dl == DataLines(ls)
    IN  \/ dl = <<>>
        \/ \E i \in DOMAIN dl : Len(dl[i].fields) < Len(names)

LoadRows(ls, names) ==
    LET dl == DataLines(ls)
    IN  [i \in DOMAIN dl |->
            [n \in {ValidName(names[j]) : j \in DOMAIN names} |->
                dl[i].fields[CHOOSE j \in DOMAIN names : ValidName(names[j]) = n]]]

\* line 80: the tolerances 0.0001 (log age) and 0.000001 (Z), in the units
\* of the data lines
AgeTol == 2
ZTol == 2

\* lines 78-80: row i (1-based) and the next differ by at least a tolerance
ChangedAt(data, i) ==
    \/ data[i + 1]["logageyr"] - data[i]["logageyr"] >= AgeTol
    \/ data[i + 1]["Z"] - data[i]["Z"] >= ZTol

\* lines 80-81: np.where(...)[0] + 1, the 0-based index of the first row
\* after each change
RECURSIVE ChangedFrom(_, _)
ChangedFrom(data, i) ==
    IF i >= Len(data) THEN <<>>
    ELSE (IF ChangedAt(data, i) THEN <<i>> ELSE <<>>) \o ChangedFrom(data, i + 1)

Changed(data) == ChangedFrom(data, 1)

\* variant: no check
CountsAgreeAlways(changed, blocks) == TRUE

\* line 82: assert len(changed) + 1 == len(blocks)
CountsAgree(changed, blocks) == Len(changed) + 1 = Len(blocks)

\* variant: the row at idx1 included
SliceInclusive(data, idx0, idx1) == SubSeq(data, idx0 + 1, Min(idx1 + 1, Len(data)))

\* data[idx0:idx1] with 0-based bounds, clipped to the rows there are
Slice(data, idx0, idx1) == SubSeq(data, idx0 + 1, Min(idx1, Len(data)))

\* lines 88-95: the isochrones built from bounds = [0] + changed + [len + 1],
\* one per (bound, block) pair of the zip, until a _parse_meta raises
RECURSIVE BuildFrom(_, _, _, _, _, _)
BuildFrom(data, bounds, blocks, hdr, i, acc) ==
    IF i > Min(Len(bounds) - 1, Len(blocks))
    THEN [err |-> "none", isochrones |-> acc]
    ELSE IF ParseMetaFails(blocks[i].header_lines[1])
    THEN [err |-> "ValueError", isochrones |-> acc]
    ELSE BuildFrom(data, bounds, blocks, hdr, i + 1,
                   Append(acc, [rows |-> Slice(data, bounds[i], bounds[i + 1]),
                                meta |-> ParseMeta(blocks[i].header_lines[1]),
                                header |-> hdr]))

\* variant: the list left as it is
KeepIsochrones(isocs) == isocs

\* line 54: self._isochrones = []
ResetIsochrones(isocs) == <<>>

\* what _read does to a file on an object whose _isochrones is isocs0: the
\* line it stopped at (stage), the exception it raised, its locals and the
\* _isochrones it left
ReadInto(isocs0, ls) ==
    LET ps       == PrescanTable(ls, HeaderDepth)
        start    == ResetIsochrones(isocs0)
        none     == [stage |-> "prescan", err |-> ps.err, blocks |-> ps.blocks,
                     header_lines |-> ps.header_lines, colnames |-> <<>>,
                     data |-> <<>>, changed |-> <<>>, isochrones |-> start]
        colnames == ParseColnames(SchemaLine(ps.blocks))
        names    == {ValidName(colnames[j]) : j \in DOMAIN colnames}
        data     == LoadRows(ls, colnames)
        changed  == Changed(data)
        built    == BuildFrom(data, <<0>> \o changed \o <<Len(data) + 1>>,
                              ps.blocks, ps.header_lines, 1, start)
    IN  IF ps.err # "none" THEN none
        ELSE IF LoadFails(ls, colnames)
        THEN [none EXCEPT !.stage = "load", !.err = "ValueError",
                          !.colnames = colnames]
        ELSE IF "logageyr" \notin names \/ "Z" \notin names
        THEN [none EXCEPT !.stage = "diff", !.err = "ValueError",
                          !.colnames = colnames, !.data = data]
        ELSE IF Len(data) = 1
        THEN \* genfromtxt squeezes a one-row table to 0-d; np.diff rejects it
             [none EXCEPT !.stage = "diff", !.err = "IndexError",
                          !.colnames = colnames, !.data = data]
        ELSE IF ~CountsAgree(changed, ps.blocks)
        THEN [none EXCEPT !.stage = "assert", !.err = "AssertionError",
                          !.colnames = colnames, !.data = data,
                          !.changed = changed]
        ELSE [none EXCEPT !.stage = "build", !.err = built.err,
                          !.colnames = colnames, !.data = data,
                          !.changed = changed, !.isochrones = built.isochrones]

\* IsochroneSet(f): __init__ sets self._isochrones = [] (line 26) and
\* BaseReader.__init__ calls self._read()
ReadFile(ls) == ReadInto(<<>>, ls)

\* Isochrone.z and Isochrone.age: self.meta['Z'], self.meta['Age']
AgeKey == "Age"

MetaLookup(isoc, key) ==
    IF key \in DictKeys(isoc.meta)
    THEN [err |-> "none", val |-> DictGet(isoc.meta, key)]
    ELSE [err |-> "KeyError", val |-> <<0, 1>>]

IsochroneZ(isoc) == MetaLookup(isoc, "Z")
IsochroneAge(isoc) == MetaLookup(isoc, AgeKey)

(***************************************************************************)
(* ParseSpec: one file, prescanned or read                                 *)
(***************************************************************************)

MaxSegs == 2
MaxRows == 2

\* log(age/yr) 6.60 and 6.65, Z 0.012 and 0.019, in the units of the data
SegAges == {132000, 133000}
SegZs == {24000, 38000}

AgeLit(a) == IF a = 132000 THEN "3981000.0" ELSE "4467000.0"
ZLit(z) == IF z = 24000 THEN "0.012" ELSE "0.019"

\* a segment: its age and Z, its number of rows, and by how much the log
\* age of its last row exceeds that of the others (0: a clean isochrone)
Segments ==
    { s \in [age : SegAges, z : SegZs, nrows : 1..MaxRows, wobble : 0..2] :
        s.nrows = 1 => s.wobble = 0 }

GlobalHeaders ==
    { <<>>, << <<"#", " ", "CMD">>, <<"#", "\t", "photsys">> >> }

\* what else a file can have: its last data line without its last field, its
\* first table without its first header line, a comment line closing every
\* table
Quirks == {"none", "short_line", "short_header", "trailer"}

FileIns ==
    { f \in [ global : GlobalHeaders,
              segs : UNION { [1..n -> Segments] : n \in 0..MaxSegs },
              ageKey : {"Age", "age"},
              colStyle : {"attached", "tab"},
              quirk : Quirks ] :
        /\ f.quirk # "none" =>
              /\ f.global = <<>> /\ f.ageKey = "Age" /\ f.colStyle = "attached"
              /\ f.segs # <<>>
        /\ f.colStyle = "tab" => (f.global = <<>> /\ f.ageKey = "Age") }

CommentLine(text) == [text |-> text, fields |-> <<>>]

MetaLine(f, s) ==
    CommentLine(<<"#", "\t", "Z", " ", "=", " ", ZLit(s.z), "\t",
                  f.ageKey, " ", "=", " ", AgeLit(s.age), " ", "yr">>)

\* the column header, "#Z\tlog(age/yr)\t..." or "#\tZ\tlog(age/yr)\t..."
ColLine(f) ==
    CommentLine((IF f.colStyle = "tab" THEN <<"#", "\t">> ELSE <<"#">>)
                \o <<"Z", "\t", "log(age/yr)", "\t", "M_ini", "\t", "J",
                     "\t", "stage">>)

DataLine(s, r) ==
    [text |-> <<"\t">>,
     fields |-> <<s.z,
                  IF r = s.nrows THEN s.age + s.wobble ELSE s.age,
                  r, 7, 0>>]

TrailerLine == CommentLine(<<"#", "isochrone", " ", "terminated">>)

RenderSeg(f, s) ==
    <<MetaLine(f, s), ColLine(f)>> \o [r \in 1..s.nrows |-> DataLine(s, r)]
        \o (IF f.quirk = "trailer" THEN <<TrailerLine>> ELSE <<>>)

RECURSIVE RenderSegs(_, _)
RenderSegs(f, segs) ==
    IF segs = <<>> THEN <<>>
    ELSE RenderSeg(f, segs[1]) \o RenderSegs(f, Tail(segs))

RenderPlain(f) ==
    [i \in DOMAIN f.global |-> CommentLine(f.global[i])] \o RenderSegs(f, f.segs)

RenderFile(f) ==
    LET ls == RenderPlain(f)
    IN  CASE f.quirk = "short_line" ->
                [ls EXCEPT ![Len(ls)].fields = SubSeq(@, 1, Len(@) - 1)]
          [] f.quirk = "short_header" -> Tail(ls)
          [] OTHER -> ls

NotRead ==
    [stage |-> "none", err |-> "pending", blocks |-> <<>>, header_lines |-> <<>>,
     colnames |-> <<>>, data |-> <<>>, changed |-> <<>>, isochrones |-> <<>>]

ParseInit ==
    /\ fileIn \in FileIns
    /\ lines = RenderFile(fileIn)
    /\ start_lines = <<>>
    /\ read = NotRead
    /\ read2 = NotRead
    /\ pc = "new"
    \* the variables of the other specifications
    /\ metaIn = Unused /\ header = Unused /\ meta = Unused
    /\ metaErr = Unused
    /\ isochrones = Unused /\ current = Unused /\ walk = Unused
    /\ lastWalk = Unused /\ signal = Unused /\ nwalks = Unused
    /\ handles = Unused /\ called = Unused
    /\ left_set = Unused /\ right_set = Unused /\ left0 = Unused
    /\ right0 = Unused
    /\ joinArgs = Unused /\ joinErr = Unused /\ njoined = Unused
    /\ table_cols = Unused /\ filter_names = Unused
    /\ schema = Unused /\ user_settings = Unused /\ lastOp = Unused
    /\ nops = Unused
    /\ colIn = Unused /\ hblocks = Unused /\ dt = Unused

\* start_lines = isoctable._prescan_table()
CallPrescanTable ==
    /\ pc = "new"
    /\ start_lines' = PrescanStartLines(lines)
    /\ pc' = "prescanned"
    /\ UNCHANGED <<fileIn, lines, read, read2>>
    /\ UNCHANGED <<MetaVars, IterVars, JoinVars, BandVars, SettingsVars, SchemaVars>>

\* IsochroneSet(f): BaseReader.__init__ calls self._read()
CallRead ==
    /\ pc = "new"
    /\ read' = ReadFile(lines)
    /\ pc' = "read"
    /\ UNCHANGED <<fileIn, lines, start_lines, read2>>
    /\ UNCHANGED <<MetaVars, IterVars, JoinVars, BandVars, SettingsVars, SchemaVars>>

\* self._read() once more, on the object the first read left
CallReadAgain ==
    /\ pc = "read"
    /\ read2' = ReadInto(read.isochrones, lines)
    /\ pc' = "reread"
    /\ UNCHANGED <<fileIn, lines, start_lines, read>>
    /\ UNCHANGED <<MetaVars, IterVars, JoinVars, BandVars, SettingsVars, SchemaVars>>

(***************************************************************************)
(* BandSpec: the filter_names of one isochrone table                       *)
(***************************************************************************)

MaxCols == 3

ColumnNames == {"M_ini", "logTe", "J", "H", "Ks", "stage", "Z"}

\* the columns of the isochrone of test_isochrone_starfish, with its
\* non-bandpass columns around them
ExampleCols == <<"M_ini", "logTe", "J", "H", "Ks", "stage">>

NoRepeat(s) == \A i, j \in DOMAIN s : s[i] = s[j] => i = j

\* a table has no two columns of one name
TableCols ==
    { s \in UNION { [1..n -> ColumnNames] : n \in 0..MaxCols } : NoRepeat(s) }
        \cup {ExampleCols}

BandInit ==
    /\ table_cols \in TableCols
    /\ filter_names = [done |-> FALSE, names |-> <<>>]
    \* the variables of the other specifications
    /\ metaIn = Unused /\ header = Unused /\ meta = Unused
    /\ metaErr = Unused
    /\ isochrones = Unused /\ current = Unused /\ walk = Unused
    /\ lastWalk = Unused /\ signal = Unused /\ nwalks = Unused
    /\ handles = Unused /\ called = Unused
    /\ left_set = Unused /\ right_set = Unused /\ left0 = Unused
    /\ right0 = Unused
    /\ joinArgs = Unused /\ joinErr = Unused /\ njoined = Unused
    /\ fileIn = Unused /\ lines = Unused /\ start_lines = Unused
    /\ read = Unused /\ read2 = Unused /\ pc = Unused
    /\ schema = Unused /\ user_settings = Unused /\ lastOp = Unused
    /\ nops = Unused
    /\ colIn = Unused /\ hblocks = Unused /\ dt = Unused

\* isoc.filter_names
CallFilterNames ==
    /\ ~filter_names.done
    /\ filter_names' = [done |-> TRUE, names |-> FilterNames(table_cols)]
    /\ UNCHANGED table_cols
    /\ UNCHANGED <<MetaVars, IterVars, JoinVars, ParseVars, SettingsVars, SchemaVars>>

(***************************************************************************)
(* Settings (padova/settings.py)                                           *)
(*                                                                         *)
(* The schema maps a key to its table [kind, default, choices, range,      *)
(* alias]; alias is <<>> for a table without alias, <<a>> for alias a.     *)
(* _user_settings is a function from some of the keys to values.  Values   *)
(* are small integers.                                                     *)
(***************************************************************************)

SettingKeys == {"cmd_version", "isoc_zlow", "photsys_file"}

\* line 39: the schema is ordered by key
SortedKeys == <<"cmd_version", "isoc_zlow", "photsys_file">>

Table(k, aliased) ==
    CASE k = "cmd_version" ->
            [kind |-> "static", default |-> 2, choices |-> {}, range |-> <<>>,
             alias |-> IF aliased THEN <<"version">> ELSE <<>>]
      [] k = "isoc_zlow" ->
            [kind |-> "range", default |-> 1, choices |-> {}, range |-> <<2, 1>>,
             alias |-> IF aliased THEN <<"zlow">> ELSE <<>>]
      [] k = "photsys_file" ->
            [kind |-> "choices", default |-> 1, choices |-> {1, 3}, range |-> <<>>,
             alias |-> IF aliased THEN <<"photsys">> ELSE <<>>]

\* the schemas: every key with or without its alias; no alias is a key or
\* the alias of two keys
Schemas == { [k \in SettingKeys |-> Table(k, k \in A)] : A \in SUBSET SettingKeys }

\* _index_aliases: alias -> key, a later key replacing an earlier one
RECURSIVE IndexAliasesFrom(_, _, _)
IndexAliasesFrom(sch, i, aliases) ==
    IF i > Len(SortedKeys) THEN aliases
    ELSE LET k == SortedKeys[i]
         IN  IF k \in DOMAIN sch /\ sch[k].alias # <<>>
             THEN IndexAliasesFrom(sch, i + 1,
                      [a \in DOMAIN aliases \cup {sch[k].alias[1]} |->
                          IF a = sch[k].alias[1] THEN k ELSE aliases[a]])
             ELSE IndexAliasesFrom(sch, i + 1, aliases)

IndexAliases(sch) == IndexAliasesFrom(sch, 1, <<>>)

\* variant: an alias is not looked up
ResolveKeyNoAlias(sch, k) ==
    IF k \in DOMAIN sch THEN [err |-> "none", key |-> k]
    ELSE [err |-> "KeyError", key |-> k]

\* _resolve_key: a schema key is itself, an alias is its key, anything else
\* raises KeyError
ResolveKey(sch, k) ==
    IF k \in DOMAIN sch THEN [err |-> "none", key |-> k]
    ELSE IF k \in DOMAIN IndexAliases(sch)
         THEN [err |-> "none", key |-> IndexAliases(sch)[k]]
         ELSE [err |-> "KeyError", key |-> k]

Max(a, b) == IF a >= b THEN a ELSE b

\* variant: a range checked at its lower end only
ValidateLowerOnly(sch, key, v) ==
    LET table == sch[ResolveKey(sch, key).key]
    IN  CASE table.kind = "static"  -> v # table.default
          [] table.kind = "choices" -> v \notin table.choices
          [] table.kind = "range"   ->
                ~(v >= Min(table.range[1], table.range[2]))
          [] OTHER -> FALSE

\* _validate: the assertion of the table's kind fails
ValidateFails(sch, key, v) ==
    LET table == sch[ResolveKey(sch, key).key]
    IN  CASE table.kind = "static"  -> v # table.default
          [] table.kind = "choices" -> v \notin table.choices
          [] table.kind = "range"   ->
                ~(v >= Min(table.range[1], table.range[2])
                  /\ v <= Max(table.range[1], table.range[2]))
          [] OTHER -> FALSE

\* __getitem__: the user's setting, or the default of the schema
GetItem(sch, us, name) ==
    LET r == ResolveKey(sch, name)
    IN  IF r.err # "none" THEN [err |-> r.err, val |-> 0]
        ELSE IF r.key \in DOMAIN us THEN [err |-> "none", val |-> us[r.key]]
        ELSE [err |-> "none", val |-> sch[r.key].default]

\* self._user_settings[k] = v and del self._user_settings[k]
PutSetting(us, k, v) == [x \in DOMAIN us \cup {k} |-> IF x = k THEN v ELSE us[x]]
DropSetting(us, k) == [x \in DOMAIN us \ {k} |-> us[x]]

\* __setitem__
SetItemResult(sch, us, name, v) ==
    LET r == ResolveKey(sch, name)
    IN  IF r.err # "none" THEN [err |-> r.err, us |-> us]
        ELSE IF ValidateFails(sch, r.key, v)
        THEN [err |-> "AssertionError", us |-> us]
        ELSE [err |-> "none", us |-> PutSetting(us, r.key, v)]

\* __setattr__: a name that is no setting becomes a plain attribute
SetAttrResult(sch, us, name, v) ==
    LET r == SetItemResult(sch, us, name, v)
    IN  IF r.err = "KeyError" THEN [err |-> "none", us |-> us] ELSE r

\* __delitem__
DelItemResult(sch, us, name) ==
    LET r == ResolveKey(sch, name)
    IN  IF r.err # "none" THEN [err |-> r.err, us |-> us]
        ELSE [err |-> "none", us |-> DropSetting(us, r.key)]

\* __delattr__: a name that is no setting is deleted as a plain attribute,
\* which the object does not have
DelAttrResult(sch, us, name) ==
    LET r == DelItemResult(sch, us, name)
    IN  IF r.err = "KeyError" THEN [err |-> "AttributeError", us |-> us] ELSE r

\* update: the pairs of h one after the other, until one raises
RECURSIVE UpdateResult(_, _, _)
UpdateResult(sch, us, h) ==
    IF h = <<>> THEN [err |-> "none", us |-> us]
    ELSE LET r == SetItemResult(sch, us, h[1][1], h[1][2])
         IN  IF r.err # "none" THEN r ELSE UpdateResult(sch, r.us, Tail(h))

(***************************************************************************)
(* SettingsSpec: a Settings object and the calls that change it            *)
(***************************************************************************)

MaxOps == 3

SettingNames == SettingKeys \cup {"version", "zlow", "photsys", "bogus"}
SettingValues == 0..3

\* the dicts handed to update, as the sequence their items come in
Updates ==
    { h \in UNION { [1..n -> SettingNames \X {1, 3}] : n \in 0..2 } :
        \A i, j \in DOMAIN h : h[i][1] = h[j][1] => i = j }

\* Settings(f): the schema validates itself, no user setting yet
SettingsInit ==
    /\ schema \in Schemas
    /\ user_settings = <<>>
    /\ lastOp = [op |-> "init", name |-> "", err |-> "none", before |-> <<>>]
    /\ nops = 0
    \* the variables of the other specifications
    /\ metaIn = Unused /\ header = Unused /\ meta = Unused
    /\ metaErr = Unused
    /\ isochrones = Unused /\ current = Unused /\ walk = Unused
    /\ lastWalk = Unused /\ signal = Unused /\ nwalks = Unused
    /\ handles = Unused /\ called = Unused
    /\ left_set = Unused /\ right_set = Unused /\ left0 = Unused
    /\ right0 = Unused
    /\ joinArgs = Unused /\ joinErr = Unused /\ njoined = Unused
    /\ fileIn = Unused /\ lines = Unused /\ start_lines = Unused
    /\ read = Unused /\ read2 = Unused /\ pc = Unused
    /\ table_cols = Unused /\ filter_names = Unused
    /\ colIn = Unused /\ hblocks = Unused /\ dt = Unused

\* one call with the given outcome
Called(op, name, r) ==
    /\ nops < MaxOps
    /\ user_settings' = r.us
    /\ lastOp' = [op |-> op, name |-> name, err |-> r.err,
                  before |-> user_settings]
    /\ nops' = nops + 1
    /\ UNCHANGED schema
    /\ UNCHANGED <<MetaVars, IterVars, JoinVars, ParseVars, BandVars, SchemaVars>>

\* settings[name] = v
SetItem(name, v) ==
    Called("setitem", name, SetItemResult(schema, user_settings, name, v))

\* settings.name = v
SetAttr(name, v) ==
    Called("setattr", name, SetAttrResult(schema, user_settings, name, v))

\* del settings[name]
DelItem(name) ==
    Called("delitem", name, DelItemResult(schema, user_settings, name))

\* del settings.name
DelAttr(name) ==
    Called("delattr", name, DelAttrResult(schema, user_settings, name))

\* settings.update(h)
Update(h) ==
    Called("update", IF h = <<>> THEN "" ELSE h[Len(h)][1],
           UpdateResult(schema, user_settings, h))

(***************************************************************************)
(* SchemaSpec: the column names and types _read derives from the blocks    *)
(***************************************************************************)

MaxNames == 3

\* the whitespace-free tokens a column header is made of
ColTokens == { <<"Z">>, <<"#", "Z">>, <<"#">>, <<"J">>, <<"stage">>, <<"pmode">> }

\* what separates two tokens of the line
ColSeps == { <<"\t">>, <<" ">>, <<"\t", " ">> }

ColIns ==
    [ names : UNION { [1..n -> ColTokens] : n \in 1..MaxNames },
      sep : ColSeps,
      nblocks : 1..2 ]

RECURSIVE JoinTokens(_, _)
JoinTokens(toks, sep) ==
    IF toks = <<>> THEN <<>>
    ELSE toks[1] \o (IF Len(toks) > 1 THEN sep ELSE <<>>)
         \o JoinTokens(Tail(toks), sep)

\* the first header line of every block, and the column header of a block
\* after the first
SchemaMetaText == <<"#", "\t", "Z", "=", "0.012", "\t", "Age", "=", "3981000.0", " ", "yr">>
OtherColText == <<"#", "\t", "M_ini", "\t", "logTe">>

BlocksOf(c) ==
    << [header_lines |-> <<SchemaMetaText, JoinTokens(c.names, c.sep)>>] >>
        \o (IF c.nblocks = 2
            THEN << [header_lines |-> <<SchemaMetaText, OtherColText>>] >>
            ELSE <<>>)

SchemaInit ==
    /\ colIn \in ColIns
    /\ hblocks = BlocksOf(colIn)
    /\ dt = [done |-> FALSE, colnames |-> <<>>, dt |-> <<>>]
    \* the variables of the other specifications
    /\ metaIn = Unused /\ header = Unused /\ meta = Unused
    /\ metaErr = Unused
    /\ isochrones = Unused /\ current = Unused /\ walk = Unused
    /\ lastWalk = Unused /\ signal = Unused /\ nwalks = Unused
    /\ handles = Unused /\ called = Unused
    /\ left_set = Unused /\ right_set = Unused /\ left0 = Unused
    /\ right0 = Unused
    /\ joinArgs = Unused /\ joinErr = Unused /\ njoined = Unused
    /\ fileIn = Unused /\ lines = Unused /\ start_lines = Unused
    /\ read = Unused /\ read2 = Unused /\ pc = Unused
    /\ table_cols = Unused /\ filter_names = Unused
    /\ schema = Unused /\ user_settings = Unused /\ lastOp = Unused
    /\ nops = Unused

\* lines 57-68 of _read: colnames and dt
BuildSchema ==
    /\ ~dt.done
    /\ LET colnames == ParseColnames(SchemaLine(hblocks))
       IN  dt' = [done |-> TRUE, colnames |-> colnames, dt |-> DType(colnames)]
    /\ UNCHANGED <<colIn, hblocks>>
    /\ UNCHANGED <<MetaVars, IterVars, JoinVars, ParseVars, BandVars, SettingsVars>>

(***************************************************************************)
(* Specifications                                                          *)
(***************************************************************************)

MetaNext == CallParseMeta
MetaSpec == MetaInit /\ [][MetaNext]_vars

IterNext == CallNext \/ CallIter \/ CallGetItem \/ CallLen
IterSpec == IterInit /\ [][IterNext]_vars

JoinNext == \E rb \in RightBandsArgs, lb \in LeftBandsArgs : JoinIsochroneSets(rb, lb)
JoinSpec == JoinInit /\ [][JoinNext]_vars

ParseNext == CallPrescanTable \/ CallRead \/ CallReadAgain
ParseSpec == ParseInit /\ [][ParseNext]_vars

BandNext == CallFilterNames
BandSpec == BandInit /\ [][BandNext]_vars

SettingsNext ==
    \/ \E name \in SettingNames, v \in SettingValues : SetItem(name, v)
    \/ \E name \in SettingNames, v \in SettingValues : SetAttr(name, v)
    \/ \E name \in SettingNames : DelItem(name)
    \/ \E name \in SettingNames : DelAttr(name)
    \/ \E h \in Updates : Update(h)
SettingsSpec == SettingsInit /\ [][SettingsNext]_vars

SchemaNext == BuildSchema
SchemaSpec == SchemaInit /\ [][SchemaNext]_vars

(***************************************************************************)
(* Claims about _parse_meta (MetaSpec)                                     *)
(***************************************************************************)

MetaDone == metaErr \notin {"pending", Unused}

\* the line " Z = 0.012  age = 3981000.0 "
BareExampleLine ==
    <<" ", "Z", " ", "=", " ", "0.012", " ", " ",
      "age", " ", "=", " ", "3981000.0", " ">>

\* the line "# Z = 0.012  age = 3981000.0 yr"
FramedExampleLine ==
    <<"#", " ", "Z", " ", "=", " ", "0.012", " ", " ",
      "age", " ", "=", " ", "3981000.0", " ", "yr">>

ExampleMeta ==
    << [k |-> "Z", v |-> <<3, 250>>], [k |-> "age", v |-> <<3981000, 1>>] >>

\* the line has one boilerplate token before and one after its key = value
\* tokens, and every value is a numeric literal
Framed(m) ==
    /\ Len(Split(m.prefix)) = 1 /\ IsSpace(m.prefix[Len(m.prefix)])
    /\ Len(Split(m.suffix)) = 1 /\ IsSpace(m.suffix[1])
    /\ \A i \in DOMAIN m.pairs : m.pairs[i][2] \in NumLits

FirstIdx(ps, k) == CHOOSE i \in DOMAIN ps :
    ps[i][1] = k /\ \A j \in DOMAIN ps : ps[j][1] = k => i <= j
LastIdx(ps, k) == CHOOSE i \in DOMAIN ps :
    ps[i][1] = k /\ \A j \in DOMAIN ps : ps[j][1] = k => j <= i

\* d maps every key of the pairs to the value of its (last) pair, the keys
\* in order of first appearance
MapsEveryKey(d, ps) ==
    /\ DictKeys(d) = {ps[i][1] : i \in DOMAIN ps}
    /\ \A a, b \in DOMAIN d : a < b => FirstIdx(ps, d[a].k) < FirstIdx(ps, d[b].k)
    /\ \A a \in DOMAIN d : d[a].v = FloatLit(ps[LastIdx(ps, d[a].k)][2])

\* C4 (as stated): the header line " Z = 0.012  age = 3981000.0 " parses to
\* exactly {Z: 0.012, age: 3981000.0}.
C4_BareLineParses ==
    (MetaDone /\ header = BareExampleLine) =>
        (metaErr = "none" /\ meta = ExampleMeta)

\* C4 (amended): a header line whose first and last whitespace-delimited
\* tokens are boilerplate and whose other tokens are key = value pairs with
\* numeric values parses to a mapping from every key to its value, in order
\* of appearance; "# Z = 0.012  age = 3981000.0 yr" gives
\* {Z: 0.012, age: 3981000.0}, and the line without the two boilerplate
\* tokens raises ValueError.
C4_FramedLineParses ==
    /\ (MetaDone /\ Framed(metaIn)) =>
           (metaErr = "none" /\ MapsEveryKey(meta, metaIn.pairs))
    /\ (MetaDone /\ header = FramedExampleLine) => meta = ExampleMeta
    /\ (MetaDone /\ header = BareExampleLine) => metaErr = "ValueError"

C4_Witness ==
    /\ MetaDone /\ header = FramedExampleLine
    /\ Framed(metaIn) /\ metaErr = "none" /\ meta = ExampleMeta

(***************************************************************************)
(* Claims about the cursor walk (IterSpec)                                 *)
(***************************************************************************)

\* C10: a walk started with the cursor at the start yields the isochrones in
\* index order 0..len-1, each once, then signals the end and resets the
\* cursor to 0, so the next walk again yields all len isochrones.
C10_WalkYieldsAllInOrder ==
    /\ signal = "item" => (current \in 1..Len(isochrones)
                            /\ walk = SubSeq(isochrones, 1, current))
    /\ signal = "StopIteration" =>
           (lastWalk = isochrones /\ current = 0 /\ walk = <<>>)

C10_Witness ==
    /\ nwalks = 2 /\ signal = "StopIteration"
    /\ Len(isochrones) = MaxIsoc /\ lastWalk = isochrones

(***************************************************************************)
(* Claims about the join (JoinSpec)                                        *)
(***************************************************************************)

JoinDone == joinErr \notin {"pending", Unused}

HasKey(t) == "M_ini" \in SeqToSet(t.cols)

\* the left rows an output row can have come from: same key, and every cell
\* read from the left table is that row's cell
LeftSrc(L, o) ==
    {r \in DOMAIN L.rows :
        /\ L.rows[r]["M_ini"] = o["M_ini"]
        /\ \A c \in DOMAIN o \ {"M_ini"} :
              o[c].t = "L" => (o[c].r = r /\ o[c] = L.rows[r][o[c].c])}

KeysOf(t) == {t.rows[r]["M_ini"] : r \in DOMAIN t.rows}
RowsWithKey(t, k) == {r \in DOMAIN t.rows : t.rows[r]["M_ini"] = k}

AtLeastOne(n) == IF n = 0 THEN 1 ELSE n

\* T is the left-outer join of L and R on M_ini
IsLeftOuter(L, R, T) ==
    /\ \A r \in DOMAIN L.rows : \E o \in DOMAIN T.rows : r \in LeftSrc(L, T.rows[o])
    /\ \A r \in DOMAIN L.rows :
          L.rows[r]["M_ini"] \notin KeysOf(R) =>
             \A o \in DOMAIN T.rows :
                r \in LeftSrc(L, T.rows[o]) =>
                   \A c \in DOMAIN T.rows[o] \ {"M_ini"} :
                      T.rows[o][c].t # "L" => T.rows[o][c] = Null
    /\ \A o \in DOMAIN T.rows :
          /\ LeftSrc(L, T.rows[o]) # {}
          /\ \A c \in DOMAIN T.rows[o] \ {"M_ini"} :
                T.rows[o][c].t = "R" =>
                   /\ T.rows[o][c].r \in RowsWithKey(R, T.rows[o]["M_ini"])
                   /\ T.rows[o][c] = R.rows[T.rows[o][c].r][T.rows[o][c].c]
    /\ \A k \in 1..MaxKey :
          Cardinality(RowsWithKey(T, k)) =
             Cardinality(RowsWithKey(L, k)) * AtLeastOne(Cardinality(RowsWithKey(R, k)))

\* C6: a join with default options (right_bands and left_bands not given)
\* succeeds and every joined isochrone has the left filter columns followed
\* by the right filter columns.
C6_DefaultJoinKeepsAllBands ==
    (/\ JoinDone
     /\ joinArgs.right_bands.none /\ joinArgs.left_bands.none
     /\ Len(left0) = Len(right_set)
     /\ \A i \in DOMAIN left0 : HasKey(left0[i]) /\ HasKey(right_set[i]))
    => /\ joinErr = "none"
       /\ \A i \in DOMAIN left0 :
             FilterNames(left_set[i].cols) =
                FilterNames(left0[i].cols) \o FilterNames(right_set[i].cols)

\* C7: the join is left-outer on M_ini: every left row appears in the joined
\* isochrone with its M_ini unchanged, a left row without a match on the
\* right has nulls in the right-side columns, and right rows without a left
\* match add no row.
C7_JoinIsLeftOuter ==
    JoinDone =>
       \A i \in 1..njoined : IsLeftOuter(left0[i], right_set[i], left_set[i])

C7_Witness ==
    /\ JoinDone /\ joinErr = "none" /\ njoined >= 1
    /\ \E i \in 1..njoined :
          /\ KeysOf(left0[i]) \ KeysOf(right_set[i]) # {}
          /\ KeysOf(right_set[i]) \ KeysOf(left0[i]) # {}
          /\ KeysOf(right_set[i]) \cap KeysOf(left0[i]) # {}
          /\ Len(joinArgs.right_bands.names) >= 1

\* the left filter columns of position i whose name is a kept right-side
\* filter column
Collisions(i) ==
    SeqToSet(FilterNames(left0[i].cols))
       \cap SeqToSet(joinArgs.right_bands.names)
       \cap SeqToSet(FilterNames(right_set[i].cols))

\* C8: every left column whose name equals a kept right-side filter column is
\* removed from the left before joining, so the joined isochrone has the
\* column exactly once, with the right side's values.
C8_RightWinsCollisions ==
    JoinDone =>
       \A i \in 1..njoined : \A c \in Collisions(i) :
          /\ Cardinality({n \in DOMAIN left_set[i].cols : left_set[i].cols[n] = c}) = 1
          /\ Suffixed(c, 1) \notin SeqToSet(left_set[i].cols)
          /\ Suffixed(c, 2) \notin SeqToSet(left_set[i].cols)
          /\ \A o \in DOMAIN left_set[i].rows :
                left_set[i].rows[o][c].t \in {"R", "null"}

C8_Witness ==
    /\ JoinDone /\ joinErr = "none"
    /\ \E i \in 1..njoined :
          /\ "J" \in Collisions(i)
          /\ \E o \in DOMAIN left_set[i].rows : left_set[i].rows[o]["J"].t = "R"

\* C9: joining two sets of different lengths fails, and does not join only
\* the first min(len(left), len(right)) positions.
C9_LengthMismatchFails ==
    (JoinDone /\ Len(left0) # Len(right_set)) =>
       (joinErr # "none" /\ njoined = 0 /\ left_set = left0)

(***************************************************************************)
(* Claims about the prescan and _read (ParseSpec)                          *)
(***************************************************************************)

\* the 0-based index of the first data line of every embedded table
RECURSIVE FirstDataLinesFrom(_, _)
FirstDataLinesFrom(ls, i) ==
    IF i > Len(ls) THEN <<>>
    ELSE (IF ~IsCommentLine(ls[i]) /\ (i = 1 \/ IsCommentLine(ls[i - 1]))
          THEN <<i - 1>> ELSE <<>>)
         \o FirstDataLinesFrom(ls, i + 1)

FirstDataLines(ls) == FirstDataLinesFrom(ls, 1)

\* C1: the prescan reports exactly one segment per embedded table, in order
\* of appearance, each starting at the 0-based index of the table's first
\* data line.
C1_PrescanFindsDataStarts ==
    pc = "prescanned" =>
       /\ Len(start_lines) = Len(fileIn.segs)
       /\ start_lines = FirstDataLines(lines)

\* a well-formed file: at least one table, every table one age and one
\* metallicity, consecutive tables of different age or metallicity
WellFormed(f) ==
    /\ Len(f.segs) >= 1
    /\ \A i \in DOMAIN f.segs : f.segs[i].wobble = 0
    /\ \A i \in DOMAIN f.segs :
          i > 1 => (f.segs[i].age # f.segs[i - 1].age \/ f.segs[i].z # f.segs[i - 1].z)

ReachedCheck == pc = "read" /\ read.stage \in {"assert", "build"}

\* C2: for a well-formed file the prescan and the split at age/metallicity
\* discontinuities find the same number of segments, so the segment-count
\* check does not fail.
C2_WellFormedCountsAgree ==
    (ReachedCheck /\ WellFormed(fileIn)) =>
       /\ Len(Changed(read.data)) + 1 = Len(read.blocks)
       /\ read.err # "AssertionError"

C5_AccessorsNeverFail ==
    (pc = "read" /\ read.err = "none") =>
       \A i \in DOMAIN read.isochrones :
          LET isoc == read.isochrones[i]
          IN  /\ "Z" \in DictKeys(isoc.meta)
              /\ {"age", "Age"} \cap DictKeys(isoc.meta) # {}
              /\ IsochroneZ(isoc) =
                    [err |-> "none", val |-> FloatLit(ZLit(fileIn.segs[i].z))]
              /\ IsochroneAge(isoc) =
                    [err |-> "none", val |-> FloatLit(AgeLit(fileIn.segs[i].age))]

(***************************************************************************)
(* Claims about filter_names (BandSpec)                                    *)
(***************************************************************************)

\* the position of a column in the table
Pos(cols, n) == CHOOSE i \in DOMAIN cols : cols[i] = n

\* C11: filter_names is the list of the columns that are not in the fixed
\* set of non-photometric column names, in the relative order of the columns;
\* the columns [M_ini, logTe, J, H, Ks, stage] give [J, H, Ks].
C11_FilterNamesAreBandsInOrder ==
    filter_names.done =>
       LET names == filter_names.names
       IN  /\ SeqToSet(names) = SeqToSet(table_cols) \ PossibleNonMag
           /\ NoRepeat(names)
           /\ \A a, b \in DOMAIN names :
                 a < b => Pos(table_cols, names[a]) < Pos(table_cols, names[b])
           /\ table_cols = ExampleCols => names = <<"J", "H", "Ks">>

C11_Witness ==
    /\ filter_names.done
    /\ table_cols = ExampleCols
    /\ filter_names.names = <<"J", "H", "Ks">>

(***************************************************************************)
(* More claims about the prescan and _read (ParseSpec)                     *)
(***************************************************************************)

\* the file as it would be with its last data line complete
Completed(f) == RenderFile([f EXCEPT !.quirk = "none"])

\* C12: a data line with exactly one field fewer than the column schema is
\* parsed successfully (the missing trailing field taken as empty); it does
\* not make the parse fail.
C12_ShortLineParses ==
    (/\ pc = "read" /\ fileIn.quirk = "short_line"
     /\ ReadFile(Completed(fileIn)).err = "none")
    => /\ read.err = "none"
       /\ Len(read.data) = Len(DataLines(lines))
       /\ Len(read.isochrones) = Len(fileIn.segs)

\* the number of comment lines before the first data line
RECURSIVE LeadingComments(_)
LeadingComments(ls) ==
    IF ls = <<>> \/ ~IsCommentLine(ls[1]) THEN 0
    ELSE 1 + LeadingComments(Tail(ls))

NoSegment(ls) == DataLines(ls) = <<>>

C13_WitnessNoSegment ==
    /\ pc = "read" /\ NoSegment(lines) /\ lines # <<>>
    /\ read.err = "MalformedTableError"

C16_FailedJoinLeavesLeftSet ==
    (JoinDone /\ joinErr # "none") => left_set = left0

PrescanOk == pc = "read" /\ read.stage # "prescan"

RECURSIVE TextsAt(_, _, _)
TextsAt(ls, idx, i) ==
    IF i > Len(ls) THEN <<>>
    ELSE (IF i \in idx THEN <<ls[i].text>> ELSE <<>>) \o TextsAt(ls, idx, i + 1)

\* the (1-based) indices of the 2 lines before the first data line of a block
HeaderIdx(b) == {b.start - 1, b.start}

\* the comment lines buffered when the last block opens that are header
\* lines of no block
GlobalIdx(ls, blocks) ==
    {i \in 1..blocks[Len(blocks)].start :
        /\ IsCommentLine(ls[i])
        /\ \A k \in DOMAIN blocks : i \notin HeaderIdx(blocks[k])}

C18_WitnessGlobal ==
    /\ PrescanOk /\ Len(read.blocks) = 2
    /\ Len(fileIn.global) = 2 /\ read.header_lines = fileIn.global

Abs(x) == IF x < 0 THEN 0 - x ELSE x

\* C19: the content-driven split declares a boundary between two consecutive
\* rows exactly when the change of the age column between them exceeds
\* 0.0001 or the change of the metallicity column exceeds 0.000001, whatever
\* the direction of the change, and at no other place.
C19_BoundaryIffChangeExceeds ==
    ReachedCheck =>
       \A i \in 1..(Len(read.data) - 1) :
          (i \in SeqToSet(read.changed))
             <=> \/ Abs(read.data[i + 1]["logageyr"] - read.data[i]["logageyr"]) > AgeTol
                 \/ Abs(read.data[i + 1]["Z"] - read.data[i]["Z"]) > ZTol

\* the rows of the isochrones, one isochrone after the other
RECURSIVE AllRows(_)
AllRows(isocs) ==
    IF isocs = <<>> THEN <<>> ELSE isocs[1].rows \o AllRows(Tail(isocs))

SchemaIs(TypeOf(_)) ==
    dt.done =>
       /\ dt.colnames = colIn.names
       /\ Len(dt.dt) = Len(colIn.names)
       /\ \A i \in DOMAIN dt.dt :
             /\ dt.dt[i].name = colIn.names[i]
             /\ dt.dt[i].type = TypeOf(colIn.names[i])

C22_JoinReplacesLeftKeepsRight ==
    JoinDone =>
       /\ right_set = right0
       /\ Len(left_set) = Len(left0)
       /\ joinErr = "none" =>
             /\ njoined = Min(Len(left0), Len(right0))
             /\ \A i \in DOMAIN left0 :
                   IF i <= Len(right0)
                   THEN /\ IsLeftOuter(left0[i], right0[i], left_set[i])
                        /\ Len(left_set[i].cols) >=
                              1 + Len(joinArgs.right_bands.names)
                   ELSE left_set[i] = left0[i]

C22_Witness ==
    /\ JoinDone /\ joinErr = "none" /\ njoined = 2
    /\ right_set = right0
    /\ joinArgs.right_bands.names = <<"U">>
    /\ left_set[1] # left0[1] /\ left_set[2] # left0[2]
    /\ left0[1] # left0[2] /\ right0[1] # right0[2]
    /\ \A i \in 1..2 : Len(right0[i].cols) > 2

(***************************************************************************)
(* The frame of the cursor (IterSpec)                                      *)
(***************************************************************************)

\* the positions the iterator h has yielded in the current pass
YieldedBy(h) == {handles[h].yielded[j] : j \in DOMAIN handles[h].yielded}

\* no other iterator has been advanced since h was handed out
OthersIdleSince(h) ==
    \A g \in DOMAIN handles \ {h} :
       \A p \in YieldedBy(g) : p < handles[h].start

\* C23: only next() moves the cursor: __iter__, indexed access and len leave
\* it unchanged, so a walk started after an earlier walk was abandoned after
\* k < len items resumes at item k, and walks held at the same time share
\* one cursor (no position is yielded to two of them, together they yield
\* the positions before the cursor); always 0 <= cursor <= len.
C23_OnlyNextMovesCursor ==
    /\ current \in 0..Len(isochrones)
    /\ called.op \in {"iter", "getitem", "len"} => current = called.before
    /\ (called.op = "next" /\ called.ret.err = "none") =>
          /\ current = called.before + 1
          /\ called.ret.val = isochrones[called.before + 1]
    /\ \A h \in DOMAIN handles :
          /\ handles[h].start \in 0..current
          /\ OthersIdleSince(h) =>
                handles[h].yielded =
                   [j \in 1..(current - handles[h].start) |->
                       handles[h].start + j - 1]
          /\ \A g \in DOMAIN handles \ {h} : YieldedBy(g) \cap YieldedBy(h) = {}
    /\ UNION {YieldedBy(h) : h \in DOMAIN handles} = 0..(current - 1)

\* a walk on the set abandoned after one of three items, and the walk
\* requested after it yielding item 1 first
C23_Witness ==
    /\ Len(isochrones) = MaxIsoc
    /\ Len(handles) = 2
    /\ handles[1] = [start |-> 0, yielded |-> <<0>>]
    /\ handles[2] = [start |-> 1, yielded |-> <<1>>]
    /\ called.op = "next" /\ called.ret.err = "none"
    /\ isochrones[1] # isochrones[2]

\* two walks held at the same time and advanced in turn
C23_WitnessShared ==
    /\ Len(isochrones) = MaxIsoc
    /\ Len(handles) = 2
    /\ handles[1] = [start |-> 0, yielded |-> <<0, 2>>]
    /\ handles[2] = [start |-> 0, yielded |-> <<1>>]
    /\ called.op = "len" /\ current = 3

(***************************************************************************)
(* Stored settings stay valid (SettingsSpec)                               *)
(***************************************************************************)

\* the value v meets the schema entry table
Satisfies(table, v) ==
    /\ table.kind = "static" => v = table.default
    /\ table.kind = "choices" => v \in table.choices
    /\ table.kind = "range" =>
          \E i, j \in DOMAIN table.range :
             table.range[i] <= v /\ v <= table.range[j]

DeletedKey == ResolveKey(schema, lastOp.name).key

\* C24: after any sequence of item assignments, attribute assignments,
\* update() calls and deletions every stored user setting satisfies its
\* schema entry; a deletion removes the user's override of that key and
\* nothing else, and the key then reads as its schema default.
C24_StoredSettingsValid ==
    /\ \A k \in DOMAIN user_settings :
          k \in DOMAIN schema /\ Satisfies(schema[k], user_settings[k])
    /\ (lastOp.op \in {"delitem", "delattr"} /\ lastOp.err = "none") =>
          /\ DeletedKey \in DOMAIN schema
          /\ DOMAIN user_settings = DOMAIN lastOp.before \ {DeletedKey}
          /\ \A k \in DOMAIN user_settings : user_settings[k] = lastOp.before[k]
          /\ GetItem(schema, user_settings, lastOp.name) =
                [err |-> "none", val |-> schema[DeletedKey].default]
          /\ GetItem(schema, user_settings, DeletedKey) =
                [err |-> "none", val |-> schema[DeletedKey].default]

\* an override away from the default deleted through its alias, another
\* override staying
C24_Witness ==
    /\ lastOp.op = "delitem" /\ lastOp.err = "none" /\ lastOp.name = "zlow"
    /\ "isoc_zlow" \in DOMAIN lastOp.before
    /\ lastOp.before["isoc_zlow"] = 2
    /\ schema["isoc_zlow"].default = 1
    /\ "photsys_file" \in DOMAIN user_settings
    /\ user_settings["photsys_file"] = 3

====
